---- MODULE Spec2Model ----
(***************************************************************************)
(* HabitTaskGateway (src/lib/services/taskService.ts): addHabitTask,       *)
(* deleteHabitTask, getHabitTasks, markHabitComplete over the backend      *)
(* tables habits and group_members (joined with profiles).                 *)
(*                                                                         *)
(* Every await of the source is a point where other callers and the        *)
(* backend may act, so an operation is a sequence of steps, one per        *)
(* backend request.  A backend request ends in one of four outcomes: it    *)
(* answers ("ok"), it returns an error object ("error"), it returns        *)
(* neither data nor error ("empty"), or the call throws ("throw").         *)
(***************************************************************************)
EXTENDS Integers, Sequences, FiniteSets

\* ------------------------------------------------------------------ bounds
MaxTasks == 2
MaxMemberRows == 2
MaxInFlight == 1
MaxShapeRows == 2

\* ------------------------------------------------------------- value sets
Clients == {"c1", "c2"}
Users == {"u1", "u2"}
Groups == {"g1", "g2"}
NoUser == "<no user>"
Null == "<null>"
Undefined == "<undefined>"
Outcomes == {"ok", "error", "empty", "throw"}

\* Strings the code inspects are sequences of one-character strings.
Whitespace == {" "}
Digits == <<"0", "1", "2", "3", "4", "5", "6", "7", "8", "9">>
NaN == -1

\* a task name with leading, inner and trailing whitespace
TaskNames == { <<" ", "a", " ", "b", " ">> }

\* -------------------------------------------------------- pure functions
RECURSIVE TrimStart(_)
TrimStart(s) ==
  IF s # <<>> /\ Head(s) \in Whitespace THEN TrimStart(Tail(s)) ELSE s

RECURSIVE TrimEnd(_)
TrimEnd(s) ==
  IF s # <<>> /\ s[Len(s)] \in Whitespace
    THEN TrimEnd(SubSeq(s, 1, Len(s) - 1))
    ELSE s

\* String.prototype.trim
Trim(s) == TrimEnd(TrimStart(s))

DigitValue(ch) == CHOOSE d \in 0..9 : Digits[d + 1] = ch
IsDigit(ch) == \E d \in 0..9 : Digits[d + 1] = ch

RECURSIVE ToStringPos(_)
ToStringPos(n) ==
  IF n < 10 THEN <<Digits[n + 1]>>
  ELSE ToStringPos(n \div 10) \o <<Digits[(n % 10) + 1]>>

\* Number.prototype.toString of a non-negative integer key
ToString(n) == ToStringPos(n)

RECURSIVE DigitsValue(_, _)
DigitsValue(s, acc) ==
  IF s = <<>> THEN acc
  ELSE DigitsValue(Tail(s), acc * 10 + DigitValue(Head(s)))

\* Number(taskId): surrounding whitespace is skipped, the empty string is 0,
\* a string of decimal digits is its value, anything else is NaN.
Number(s) ==
  LET t == Trim(s) IN
    IF t = <<>> THEN 0
    ELSE IF \A i \in 1..Len(t) : IsDigit(t[i]) THEN DigitsValue(t, 0)
    ELSE NaN

TaskIdInputs == { ToString(i) : i \in 1..MaxTasks } \cup { <<"x">> }

\* ------------------------------------------------------------ exceptions
\* class HabitError / GroupError: an Error carrying a code
HabitError(code) == [cls |-> "HabitError", code |-> code]
GroupError(code) == [cls |-> "GroupError", code |-> code]
\* what a backend call throws when it throws: not one of the two classes
Thrown == [cls |-> "Error", code |-> ""]

\* ---------------------------------------------------------------- results
NoResult == [kind |-> "none", id |-> 0, code |-> "", members |-> <<>>]
Success == [kind |-> "ok", id |-> 0, code |-> "", members |-> <<>>]
SuccessId(i) == [kind |-> "ok", id |-> i, code |-> "", members |-> <<>>]
Members(ms) == [kind |-> "ok", id |-> 0, code |-> "", members |-> ms]
Failure(code) == [kind |-> "err", id |-> 0, code |-> code, members |-> <<>>]
\* an exception that leaves the operation instead of a result
Escaped == [kind |-> "escaped", id |-> 0, code |-> "", members |-> <<>>]

\* catch block of addHabitTask
AddCatch(e) ==
  IF e.cls \in {"HabitError", "GroupError"} THEN Failure(e.code)
  ELSE Failure("UNKNOWN")

\* catch block of deleteHabitTask
DeleteCatch(e) ==
  IF e.cls = "HabitError" THEN Failure(e.code) ELSE Failure("UNKNOWN")

\* a catch block that lets anything but its own error classes escape
GetRethrow(e) ==
  IF e.cls \in {"HabitError", "GroupError"} THEN Failure(e.code) ELSE Escaped

\* catch block of getHabitTasks
GetCatch(e) ==
  IF e.cls \in {"HabitError", "GroupError"} THEN Failure(e.code)
  ELSE Failure("UNKNOWN")

\* catch block of markHabitComplete
MarkCatch(e) ==
  IF e.cls = "HabitError" THEN Failure(e.code) ELSE Failure("UNKNOWN")

\* ------------------------------------------------- getHabitTasks, step 5
\* What the profiles(display_name) join yields for a member row: absent, one
\* object, or an array of objects; display_name may be missing or empty.
DisplayNames == {"Alice", "", Undefined}
ProfileShapes ==
  { [kind |-> "none", items |-> <<>>], [kind |-> "array", items |-> <<>>] }
    \cup { [kind |-> "object", items |-> <<[display_name |-> d]>>] :
             d \in DisplayNames }
    \cup { [kind |-> "array", items |-> <<[display_name |-> d]>>] :
             d \in DisplayNames }
    \cup { [kind |-> "array",
            items |-> <<[display_name |-> "Alice"], [display_name |-> "Bob"]>>] }

\* x || "Unknown"
OrUnknown(x) == IF x \in {Undefined, Null, ""} THEN "Unknown" ELSE x

\* a display name taken from the last element of a profile array
DisplayNameLast(profiles) ==
  IF profiles.kind = "none" \/ profiles.items = <<>> THEN "Unknown"
  ELSE OrUnknown(profiles.items[Len(profiles.items)].display_name)

\* lines 184-197: the display name of the joined profile
DisplayName(profiles) ==
  IF profiles.kind = "none" THEN "Unknown"
  ELSE IF profiles.kind = "array" /\ Len(profiles.items) > 0
    THEN OrUnknown(profiles.items[1].display_name)
  \* typeof profiles === 'object': one object, or the empty array, whose
  \* display_name is undefined
  ELSE IF profiles.kind = "array" THEN OrUnknown(Undefined)
  ELSE OrUnknown(profiles.items[1].display_name)

\* The stored completed flag: true, false, null or absent.
StoredFlags == {"true", "false", Null, Undefined}

\* a flag that counts as completed unless it is stored false
CompletedUnlessFalse(x) == x # "false"

\* task.completed || false
CompletedOrFalse(x) == IF x = "true" THEN TRUE ELSE FALSE

\* lines 203-207: the view of one task row
TaskView(task) ==
  [id |-> ToString(task.id), title |-> task.name,
   completed |-> CompletedOrFalse(task.completed)]

\* line 202: taskRows.filter((task) => task.user_id === userId), then map
RECURSIVE UserTasks(_, _)
UserTasks(rows, uid) ==
  IF rows = <<>> THEN <<>>
  ELSE IF Head(rows).user_id = uid
    THEN <<TaskView(Head(rows))>> \o UserTasks(Tail(rows), uid)
  ELSE UserTasks(Tail(rows), uid)

Avatar == "https://placeholder.svg?height=50&width=50"

\* lines 181-216: one GroupMember of a member row
MemberView(member, rows, currentUserId) ==
  [id |-> member.user_id,
   name |-> IF member.user_id = currentUserId THEN "You"
            ELSE DisplayName(member.profiles),
   avatar |-> Avatar,
   tasks |-> UserTasks(rows, member.user_id),
   lastCheckin |-> ""]

\* memberRows.map(...)
RECURSIVE BuildMembers(_, _, _)
BuildMembers(mrows, rows, currentUserId) ==
  IF mrows = <<>> THEN <<>>
  ELSE <<MemberView(Head(mrows), rows, currentUserId)>>
         \o BuildMembers(Tail(mrows), rows, currentUserId)

\* ------------------------------------------------------------------ state
VARIABLES
  session,        \* client -> the user supabase.auth.getUser() knows, or NoUser
  group_members,  \* table group_members, in the order the backend returns rows
  habits,         \* table habits, in the order the backend returns rows
  nextId,         \* the key the backend gives the next inserted habit
  op,             \* client -> the operation it runs, "none" between calls
  pc,             \* client -> the await it is suspended at, "ready" between calls
  arg,            \* client -> taskName of the running addHabitTask
  userId,         \* client -> local userId / currentUserId
  groupId,        \* client -> local groupId
  memberRows,     \* client -> local memberRows
  taskRows,       \* client -> local taskRows
  seenDeleted,    \* client -> the created tasks already deleted when its
                  \*           getHabitTasks was called
  seenMarked,     \* client -> the tasks already completed when its
                  \*           getHabitTasks was called
  deleted,        \* keys of created tasks a deleteHabitTask succeeded for
  marked,         \* keys of stored tasks a markHabitComplete succeeded for
  lastAdd         \* the last successful addHabitTask not yet disturbed

backend == <<session, group_members, habits, nextId>>
locals == <<arg, userId, groupId, memberRows, taskRows>>
seen == <<seenDeleted, seenMarked>>
history == <<deleted, marked, lastAdd>>
vars == <<backend, op, pc, locals, seen, history>>

NoAdd == [client |-> "", id |-> 0, name |-> <<>>]

\* The joined profile of each user (the profiles table is never written here).
ProfileOf(u) ==
  IF u = "u1" THEN [kind |-> "array", items |-> <<[display_name |-> "Alice"]>>]
  ELSE [kind |-> "object", items |-> <<[display_name |-> ""]>>]

HasRow(rows, n) == \E i \in 1..Len(rows) : rows[i].id = n

\* who is signed in where: two users, or one client signed out
Sessions == { [c1 |-> "u1", c2 |-> "u2"], [c1 |-> NoUser, c2 |-> "u2"] }

Init ==
  /\ session \in Sessions
  /\ group_members = <<>>
  /\ habits = <<>>
  /\ nextId = 1
  /\ op = [c \in Clients |-> "none"]
  /\ pc = [c \in Clients |-> "ready"]
  /\ arg = [c \in Clients |-> <<>>]
  /\ userId = [c \in Clients |-> NoUser]
  /\ groupId = [c \in Clients |-> Null]
  /\ memberRows = [c \in Clients |-> <<>>]
  /\ taskRows = [c \in Clients |-> <<>>]
  /\ seenDeleted = [c \in Clients |-> {}]
  /\ seenMarked = [c \in Clients |-> {}]
  /\ deleted = {}
  /\ marked = {}
  /\ lastAdd = NoAdd

\* ---------------------------------------------------------- step helpers
Ready(c) == pc[c] = "ready"
At(c, name, label) == op[c] = name /\ pc[c] = label

\* the operation of client c returns to its caller
Return(c) ==
  /\ op' = [op EXCEPT ![c] = "none"]
  /\ pc' = [pc EXCEPT ![c] = "ready"]
  /\ arg' = [arg EXCEPT ![c] = <<>>]
  /\ userId' = [userId EXCEPT ![c] = NoUser]
  /\ groupId' = [groupId EXCEPT ![c] = Null]
  /\ memberRows' = [memberRows EXCEPT ![c] = <<>>]
  /\ taskRows' = [taskRows EXCEPT ![c] = <<>>]
  /\ seenDeleted' = [seenDeleted EXCEPT ![c] = {}]
  /\ seenMarked' = [seenMarked EXCEPT ![c] = {}]

\* operation name is called with argument a by user u and suspends at label
Start(c, name, a, u, label) ==
  /\ op' = [op EXCEPT ![c] = name]
  /\ pc' = [pc EXCEPT ![c] = label]
  /\ arg' = [arg EXCEPT ![c] = a]
  /\ userId' = [userId EXCEPT ![c] = u]
  /\ seenDeleted' = [seenDeleted EXCEPT ![c] = IF name = "get" THEN deleted ELSE {}]
  /\ seenMarked' = [seenMarked EXCEPT ![c] = IF name = "get" THEN marked ELSE {}]
  /\ UNCHANGED <<groupId, memberRows, taskRows>>

\* the running operation goes on to its next await with the locals given
Goto(c, label, g, m, t) ==
  /\ pc' = [pc EXCEPT ![c] = label]
  /\ groupId' = [groupId EXCEPT ![c] = g]
  /\ memberRows' = [memberRows EXCEPT ![c] = m]
  /\ taskRows' = [taskRows EXCEPT ![c] = t]
  /\ UNCHANGED <<op, arg, userId, seen>>

\* supabase.auth.getUser(): { data: { user }, error }
GetUser(c, o) ==
  IF o = "ok" /\ session[c] # NoUser THEN [user |-> session[c], error |-> FALSE]
  ELSE IF o = "ok" THEN [user |-> Null, error |-> TRUE]
  ELSE [user |-> Null, error |-> o = "error"]

\* .eq("user_id", userId) on group_members
MembershipsOf(u) == SelectSeq(group_members, LAMBDA r : r.user_id = u)

\* groupRow?.group_id of a null groupRow is undefined
NullRow == [user_id |-> Undefined, group_id |-> Undefined]

\* .maybeSingle(): the row, null for no row, an error for several rows
MaybeSingle(rows) ==
  IF Len(rows) = 1 THEN [data |-> rows[1], error |-> FALSE]
  ELSE IF Len(rows) = 0 THEN [data |-> NullRow, error |-> FALSE]
  ELSE [data |-> NullRow, error |-> TRUE]

\* adds in flight: each may still take a key
AddsInFlight == Cardinality({c \in Clients : op[c] = "add"})
\* operations suspended at an await
InFlight == Cardinality({c \in Clients : ~Ready(c)})

\* ----------------------------------------------------------- addHabitTask
\* line 38: userError || !userData?.user
NotAuthenticated(u) == u.error \/ u.user = Null

\* a lookup that takes an empty answer for a membership
AddNoGroupLax(o, groupData) == o = "error"

\* line 57: groupError || !groupData || groupData.length === 0
AddNoGroup(o, groupData) == o \in {"error", "empty"} \/ Len(groupData) = 0

\* the group of the last membership row
LastGroupId(groupData) == groupData[Len(groupData)].group_id

\* line 61: groupData[0].group_id
FirstGroupId(groupData) == groupData[1].group_id

\* lines 65-70: the inserted row; the backend gives it the next key
InsertRow(c) ==
  [id |-> nextId, group_id |-> groupId[c], user_id |-> userId[c],
   name |-> Trim(arg[c]), completed |-> "false"]

\* What each step of addHabitTask returns to the caller when the backend
\* request it waits for ends with outcome o; NoResult when the operation
\* goes on to its next request.
AddCallResult(c, o) ==
  IF o = "throw" THEN AddCatch(Thrown)
  ELSE IF NotAuthenticated(GetUser(c, o)) THEN AddCatch(HabitError("AUTH_ERROR"))
  ELSE NoResult

AddFetchProfileResult(c, o) ==
  IF o = "throw" THEN AddCatch(Thrown) ELSE NoResult

AddFetchGroupResult(c, o) ==
  LET groupData == MembershipsOf(userId[c]) IN
    IF o = "throw" THEN AddCatch(Thrown)
    ELSE IF AddNoGroup(o, groupData) THEN AddCatch(GroupError("NO_GROUP"))
    \* groupData[0] of an empty array is undefined: reading group_id throws
    ELSE IF Len(groupData) = 0 THEN AddCatch(Thrown)
    ELSE NoResult

AddInsertResult(c, o) ==
  IF o = "throw" THEN AddCatch(Thrown)
  ELSE IF o \in {"error", "empty"} THEN AddCatch(HabitError("TASK_INSERT_ERROR"))
  ELSE SuccessId(InsertRow(c).id)

\* the group lookup of the running addHabitTask would still answer the same
Undisturbed(c) ==
  /\ MembershipsOf(userId[c]) # <<>>
  /\ FirstGroupId(MembershipsOf(userId[c])) = groupId[c]

\* lines 32-42: the call, up to the answer of auth.getUser()
AddCall(c, name, o) ==
  /\ Ready(c)
  /\ InFlight < MaxInFlight
  /\ nextId + AddsInFlight <= MaxTasks
  /\ IF AddCallResult(c, o) # NoResult THEN Return(c)
     ELSE Start(c, "add", name, GetUser(c, o).user, "profile")
  /\ UNCHANGED <<backend, history>>

\* lines 44-50: the profile row is fetched; neither its data nor its error is used
AddFetchProfile(c, o) ==
  /\ At(c, "add", "profile")
  /\ IF AddFetchProfileResult(c, o) # NoResult THEN Return(c)
     ELSE Goto(c, "group", Null, <<>>, <<>>)
  /\ UNCHANGED <<backend, history>>

\* lines 52-61: the caller's membership rows; the first one names the group
AddFetchGroup(c, o) ==
  /\ At(c, "add", "group")
  /\ IF AddFetchGroupResult(c, o) # NoResult THEN Return(c)
     ELSE Goto(c, "insert", FirstGroupId(MembershipsOf(userId[c])), <<>>, <<>>)
  /\ UNCHANGED <<backend, history>>

\* lines 63-78: the insert; habitError || !habitData is TASK_INSERT_ERROR
AddInsert(c, o) ==
  /\ At(c, "add", "insert")
  /\ IF o = "ok"
       THEN /\ habits' = Append(habits, InsertRow(c))
            /\ nextId' = nextId + 1
            /\ lastAdd' = IF Undisturbed(c)
                            THEN [client |-> c, id |-> nextId, name |-> arg[c]]
                            ELSE NoAdd
       ELSE UNCHANGED <<habits, nextId, lastAdd>>
  /\ Return(c)
  /\ UNCHANGED <<session, group_members, deleted, marked>>

\* a delete that keeps the row with the key and removes the others
DeleteRowsOthers(rows, n) == SelectSeq(rows, LAMBDA r : r.id = n)

\* -------------------------------------------------------- deleteHabitTask
\* .delete().eq("id", n): the rows that stay
DeleteRows(rows, n) == SelectSeq(rows, LAMBDA r : r.id # n)

\* the habits table after the delete request ends with outcome o
DeleteEffect(taskId, o) ==
  IF o \in {"ok", "empty"} THEN DeleteRows(habits, Number(taskId)) ELSE habits

\* lines 101-114: what deleteHabitTask returns
DeleteResult(c, taskId, o) ==
  IF o = "throw" THEN DeleteCatch(Thrown)
  ELSE IF o = "error" THEN DeleteCatch(HabitError("TASK_DELETE_ERROR"))
  ELSE Success

\* lines 92-115: one request; success unless it returns an error or throws
DeleteHabitTask(c, taskId, o) ==
  /\ Ready(c)
  /\ IF o \in {"ok", "empty"}
       THEN /\ habits' = DeleteEffect(taskId, o)
            /\ deleted' = IF Number(taskId) \in 1..(nextId - 1)
                            THEN deleted \cup {Number(taskId)} ELSE deleted
            /\ lastAdd' = IF lastAdd.id = Number(taskId) THEN NoAdd ELSE lastAdd
       ELSE UNCHANGED <<habits, deleted, lastAdd>>
  /\ UNCHANGED <<session, group_members, nextId, op, pc, locals, seen, marked>>

\* an update that flips the flag of the row with the key
MarkRowsToggle(rows, n) ==
  [i \in 1..Len(rows) |->
     IF rows[i].id = n
       THEN [rows[i] EXCEPT !.completed =
               IF rows[i].completed = "true" THEN "false" ELSE "true"]
     ELSE rows[i]]

\* ------------------------------------------------------ markHabitComplete
\* .update({ completed: true }).eq("id", n)
MarkRows(rows, n) ==
  [i \in 1..Len(rows) |->
     IF rows[i].id = n THEN [rows[i] EXCEPT !.completed = "true"] ELSE rows[i]]

\* the habits table after the update request ends with outcome o
MarkEffect(taskId, o) ==
  IF o \in {"ok", "empty"} THEN MarkRows(habits, Number(taskId)) ELSE habits

\* lines 241-254: what markHabitComplete returns
MarkResult(c, taskId, o) ==
  IF o = "throw" THEN MarkCatch(Thrown)
  ELSE IF o = "error" THEN MarkCatch(HabitError("TASK_UPDATE_ERROR"))
  ELSE Success

\* lines 231-256: one request; success unless it returns an error or throws
MarkHabitComplete(c, taskId, o) ==
  /\ Ready(c)
  /\ IF o \in {"ok", "empty"}
       THEN /\ habits' = MarkEffect(taskId, o)
            /\ marked' = IF HasRow(habits, Number(taskId))
                           THEN marked \cup {Number(taskId)} ELSE marked
            /\ lastAdd' = IF lastAdd.id = Number(taskId) THEN NoAdd ELSE lastAdd
       ELSE UNCHANGED <<habits, marked, lastAdd>>
  /\ UNCHANGED <<session, group_members, nextId, op, pc, locals, seen, deleted>>

\* ---------------------------------------------------------- getHabitTasks
\* line 137: groupError || !groupRow?.group_id
GetNoGroup(o, single) ==
  o \in {"error", "empty"} \/ single.error
    \/ single.data.group_id \in {Undefined, Null}

\* select("user_id, profiles(display_name)").eq("group_id", g)
MembersOf(g) ==
  LET rows == SelectSeq(group_members, LAMBDA r : r.group_id = g) IN
    [i \in 1..Len(rows) |->
       [user_id |-> rows[i].user_id, profiles |-> ProfileOf(rows[i].user_id)]]

\* select("id, name, user_id, completed").eq("group_id", g)
TasksOf(g) ==
  LET rows == SelectSeq(habits, LAMBDA r : r.group_id = g) IN
    [i \in 1..Len(rows) |->
       [id |-> rows[i].id, name |-> rows[i].name, user_id |-> rows[i].user_id,
        completed |-> rows[i].completed]]

\* lines 148-152, 163-165, 173-178: the error of a step that returns no rows
MembersFetchError == GroupError("MEMBERS_FETCH_ERROR")
TaskFetchError == HabitError("TASK_FETCH_ERROR")
GroupFetchError == GroupError("GROUP_FETCH_ERROR")

\* What each step of getHabitTasks returns to the caller when the backend
\* request it waits for ends with outcome o; NoResult when the operation
\* goes on to its next request.
GetCallResult(c, o) ==
  IF o = "throw" THEN GetCatch(Thrown)
  ELSE IF NotAuthenticated(GetUser(c, o)) THEN GetCatch(HabitError("AUTH_ERROR"))
  ELSE NoResult

GetFetchGroupResult(c, o) ==
  IF o = "throw" THEN GetCatch(Thrown)
  ELSE IF GetNoGroup(o, MaybeSingle(MembershipsOf(userId[c])))
    THEN GetCatch(GroupError("NO_GROUP"))
  ELSE NoResult

GetFetchMembersResult(c, o) ==
  IF o = "throw" THEN GetCatch(Thrown)
  ELSE IF o \in {"error", "empty"} THEN GetCatch(MembersFetchError)
  ELSE NoResult

GetFetchTasksResult(c, o) ==
  IF o = "throw" THEN GetCatch(Thrown)
  ELSE IF o \in {"error", "empty"} THEN GetCatch(TaskFetchError)
  ELSE NoResult

\* a last step that builds the members although the request gave no rows
GetFetchProfilesLenient(c, o) ==
  IF o = "throw" THEN GetCatch(Thrown)
  ELSE IF o = "error" THEN GetCatch(GroupFetchError)
  ELSE Members(BuildMembers(memberRows[c], taskRows[c], userId[c]))

GetFetchProfilesResult(c, o) ==
  IF o = "throw" THEN GetCatch(Thrown)
  ELSE IF o \in {"error", "empty"} THEN GetCatch(GroupFetchError)
  ELSE Members(BuildMembers(memberRows[c], taskRows[c], userId[c]))

\* lines 117-128: the call, up to the answer of auth.getUser()
GetCall(c, o) ==
  /\ Ready(c)
  /\ InFlight < MaxInFlight
  /\ IF GetCallResult(c, o) # NoResult THEN Return(c)
     ELSE Start(c, "get", <<>>, GetUser(c, o).user, "group")
  /\ UNCHANGED <<backend, history>>

\* lines 130-141: the caller's group, by maybeSingle()
GetFetchGroup(c, o) ==
  /\ At(c, "get", "group")
  /\ IF GetFetchGroupResult(c, o) # NoResult THEN Return(c)
     ELSE Goto(c, "members",
               MaybeSingle(MembershipsOf(userId[c])).data.group_id, <<>>, <<>>)
  /\ UNCHANGED <<backend, history>>

\* lines 143-156: the group's member rows with their profiles
GetFetchMembers(c, o) ==
  /\ At(c, "get", "members")
  /\ IF GetFetchMembersResult(c, o) # NoResult THEN Return(c)
     ELSE Goto(c, "tasks", groupId[c], MembersOf(groupId[c]), <<>>)
  /\ UNCHANGED <<backend, history>>

\* lines 157-165: the group's task rows
GetFetchTasks(c, o) ==
  /\ At(c, "get", "tasks")
  /\ IF GetFetchTasksResult(c, o) # NoResult THEN Return(c)
     ELSE Goto(c, "profiles", groupId[c], memberRows[c], TasksOf(groupId[c]))
  /\ UNCHANGED <<backend, history>>

\* lines 167-218: the second member fetch, whose rows are not used, and the
\* grouping of the task rows by member; the operation returns either way
GetFetchProfiles(c, o) ==
  /\ At(c, "get", "profiles")
  /\ Return(c)
  /\ UNCHANGED <<backend, history>>

\* ------------------------------------------------------------ environment
\* Membership rows are written elsewhere (the group service): a user joins a
\* group, or a membership row is removed.
JoinGroup(u, g) ==
  /\ Len(group_members) < MaxMemberRows
  /\ \A i \in 1..Len(group_members) :
       group_members[i] # [user_id |-> u, group_id |-> g]
  /\ group_members' = Append(group_members, [user_id |-> u, group_id |-> g])
  /\ lastAdd' = NoAdd
  /\ UNCHANGED <<session, habits, nextId, op, pc, locals, seen, deleted, marked>>

LeaveGroup(i) ==
  /\ i \in 1..Len(group_members)
  /\ group_members' =
       SubSeq(group_members, 1, i - 1)
         \o SubSeq(group_members, i + 1, Len(group_members))
  /\ lastAdd' = NoAdd
  /\ UNCHANGED <<session, habits, nextId, op, pc, locals, seen, deleted, marked>>

Next ==
  \/ \E c \in Clients, name \in TaskNames, o \in Outcomes : AddCall(c, name, o)
  \/ \E c \in Clients, o \in Outcomes : AddFetchProfile(c, o)
  \/ \E c \in Clients, o \in Outcomes : AddFetchGroup(c, o)
  \/ \E c \in Clients, o \in Outcomes : AddInsert(c, o)
  \/ \E c \in Clients, t \in TaskIdInputs, o \in Outcomes : DeleteHabitTask(c, t, o)
  \/ \E c \in Clients, t \in TaskIdInputs, o \in Outcomes : MarkHabitComplete(c, t, o)
  \/ \E c \in Clients, o \in Outcomes : GetCall(c, o)
  \/ \E c \in Clients, o \in Outcomes : GetFetchGroup(c, o)
  \/ \E c \in Clients, o \in Outcomes : GetFetchMembers(c, o)
  \/ \E c \in Clients, o \in Outcomes : GetFetchTasks(c, o)
  \/ \E c \in Clients, o \in Outcomes : GetFetchProfiles(c, o)
  \/ \E u \in Users, g \in Groups : JoinGroup(u, g)
  \/ \E i \in 1..MaxMemberRows : LeaveGroup(i)

Spec == Init /\ [][Next]_vars

\* ------------------------------------------- getHabitTasks on fetched rows
\* The last step of getHabitTasks on whatever the two fetches may have
\* answered: every shape of the joined profile, stored flags that are null or
\* absent, task rows of users that are no member, keys of several digits.
ShapeNames == << <<"r", "u", "n">>, <<>> >>
ShapeTaskAttrs == [user_id : Users \cup {"u3"}, completed : StoredFlags]
ShapeTaskRows ==
  UNION { { [i \in 1..n |->
              [id |-> 8 + i, name |-> ShapeNames[1 + (i % 2)],
               user_id |-> f[i].user_id, completed |-> f[i].completed]] :
            f \in [1..n -> ShapeTaskAttrs] } : n \in 0..MaxShapeRows }
ShapeMemberRows ==
  UNION { [1..n -> [user_id : Users, profiles : ProfileShapes]] :
          n \in 0..MaxShapeRows }
ShapePlainMemberRows ==
  UNION { [1..n -> [user_id : Users, profiles : {ProfileOf("u1")}]] :
          n \in 0..MaxShapeRows }

InitShape ==
  \E caller \in Users, m \in ShapeMemberRows, t \in ShapeTaskRows :
    /\ \/ m \in ShapePlainMemberRows
       \/ t = <<[id |-> 9, name |-> <<>>, user_id |-> "u2",
                 completed |-> "true"]>>
    /\ session = [c \in Clients |-> IF c = "c1" THEN caller ELSE NoUser]
    /\ group_members = <<>>
    /\ habits = <<>>
    /\ nextId = 1
    /\ op = [c \in Clients |-> IF c = "c1" THEN "get" ELSE "none"]
    /\ pc = [c \in Clients |-> IF c = "c1" THEN "profiles" ELSE "ready"]
    /\ arg = [c \in Clients |-> <<>>]
    /\ userId = [c \in Clients |-> IF c = "c1" THEN caller ELSE NoUser]
    /\ groupId = [c \in Clients |-> IF c = "c1" THEN "g1" ELSE Null]
    /\ memberRows = [c \in Clients |-> IF c = "c1" THEN m ELSE <<>>]
    /\ taskRows = [c \in Clients |-> IF c = "c1" THEN t ELSE <<>>]
    /\ seenDeleted = [c \in Clients |-> {}]
    /\ seenMarked = [c \in Clients |-> {}]
    /\ deleted = {}
    /\ marked = {}
    /\ lastAdd = NoAdd

NextShape == \E c \in Clients, o \in Outcomes : GetFetchProfiles(c, o)

SpecShape == InitShape /\ [][NextShape]_vars

\* ================================================================ claims
\* the tasks shown under any member of a returned members list
ShownTasks(r) ==
  UNION { { r.members[i].tasks[k] : k \in 1..Len(r.members[i].tasks) } :
          i \in 1..Len(r.members) }

\* the tasks shown under the member entries of user u
TasksShownFor(r, u) ==
  UNION { { r.members[i].tasks[k] : k \in 1..Len(r.members[i].tasks) } :
          i \in { j \in 1..Len(r.members) : r.members[j].id = u } }

\* C1: a successful addHabitTask(name) followed by getHabitTasks() of the same
\* caller, with the backend answering every request and nothing written in
\* between, returns members, and the caller's entry holds the task: the id
\* addHabitTask returned (as a string), title = name.trim(), completed false.
\* Stated for every caller with one or several membership rows.
C1_AddThenGetShowsTask ==
  \A c \in Clients :
    lastAdd.client = c =>
      /\ Ready(c) => GetCallResult(c, "ok") = NoResult
      /\ At(c, "get", "group") => GetFetchGroupResult(c, "ok") = NoResult
      /\ At(c, "get", "profiles") =>
           LET r == GetFetchProfilesResult(c, "ok") IN
             /\ r.kind = "ok"
             /\ [id |-> ToString(lastAdd.id), title |-> Trim(lastAdd.name),
                 completed |-> FALSE] \in TasksShownFor(r, session[c])

\* C1 holds of callers with exactly one membership row.
C1_SingleMembership ==
  \A c \in Clients :
    (lastAdd.client = c /\ Len(MembershipsOf(session[c])) = 1) =>
      /\ Ready(c) => GetCallResult(c, "ok") = NoResult
      /\ At(c, "get", "group") => GetFetchGroupResult(c, "ok") = NoResult
      /\ At(c, "get", "profiles") =>
           LET r == GetFetchProfilesResult(c, "ok") IN
             /\ r.kind = "ok"
             /\ [id |-> ToString(lastAdd.id), title |-> Trim(lastAdd.name),
                 completed |-> FALSE] \in TasksShownFor(r, session[c])

\* C2: an unauthenticated call of any of the four operations returns a failure
\* whose code is AUTH_ERROR, whatever its argument, and changes no row of the
\* habits table.
C2_UnauthenticatedIsAuthError ==
  \A c \in Clients :
    (session[c] = NoUser /\ Ready(c)) =>
      /\ AddCallResult(c, "ok") = Failure("AUTH_ERROR")
      /\ GetCallResult(c, "ok") = Failure("AUTH_ERROR")
      /\ \A t \in TaskIdInputs :
           /\ DeleteResult(c, t, "ok") = Failure("AUTH_ERROR")
           /\ MarkResult(c, t, "ok") = Failure("AUTH_ERROR")
           /\ DeleteEffect(t, "ok") = habits
           /\ MarkEffect(t, "ok") = habits

\* the keys of the rows of a table, and the row of a key
Ids(rows) == { rows[i].id : i \in 1..Len(rows) }
RowOf(rows, n) == rows[CHOOSE i \in 1..Len(rows) : rows[i].id = n]

\* a getHabitTasks of client c waits for its last request
AtLastFetch(c) == At(c, "get", "profiles")

\* C3, the table: a deleteHabitTask the backend reports no error for returns
\* success:true and leaves exactly the rows with another key, in their order;
\* when no row has the key the table is unchanged.
C3_DeleteRemovesRow ==
  \A c \in Clients, t \in TaskIdInputs, o \in {"ok", "empty"} :
    Ready(c) =>
      LET after == DeleteEffect(t, o) IN
        /\ DeleteResult(c, t, o) = Success
        /\ Ids(after) = Ids(habits) \ {Number(t)}
        /\ \A n \in Ids(after) : RowOf(after, n) = RowOf(habits, n)
        /\ Len(after) = Cardinality(Ids(after))
        /\ (Number(t) \notin Ids(habits) => after = habits)

\* C3, the view: a getHabitTasks called after the delete returned shows no
\* task with the deleted key under any member.
C3_DeletedNotShown ==
  \A c \in Clients :
    AtLastFetch(c) =>
      \A task \in ShownTasks(GetFetchProfilesResult(c, "ok")) :
        \A n \in seenDeleted[c] : task.id # ToString(n)

\* C3: deleteHabitTask(id) of a created task returns success:true and removes
\* the task from every later getHabitTasks(); a delete matching no row returns
\* success:true and leaves the habits table unchanged.
C3_DeleteThenGet ==
  /\ C3_DeleteRemovesRow
  /\ C3_DeletedNotShown
  /\ deleted \cap Ids(habits) = {}

\* a later getHabitTasks shows another task while one is deleted
C3_Witness ==
  \E c \in Clients :
    /\ AtLastFetch(c)
    /\ seenDeleted[c] # {}
    /\ ShownTasks(GetFetchProfilesResult(c, "ok")) # {}

\* C4, the table: a markHabitComplete the backend reports no error for
\* returns success:true, stores completed = true in the row with the key and
\* changes nothing else; on a row already completed it changes nothing.
C4_MarkSetsCompleted ==
  \A c \in Clients, t \in TaskIdInputs, o \in {"ok", "empty"} :
    Ready(c) =>
      LET after == MarkEffect(t, o) IN
        /\ MarkResult(c, t, o) = Success
        /\ Len(after) = Len(habits)
        /\ \A i \in 1..Len(habits) :
             after[i] = IF habits[i].id = Number(t)
                          THEN [habits[i] EXCEPT !.completed = "true"]
                          ELSE habits[i]
        /\ (Number(t) \in marked => after = habits)

\* C4, one way: no step changes a stored completed = true to anything else.
C4_NeverUncompleted ==
  \A n \in Ids(habits) \cap Ids(habits') :
    RowOf(habits, n).completed = "true" => RowOf(habits', n).completed = "true"

\* C4, the view: a getHabitTasks called after the mark returned shows the task,
\* when it shows it, with completed === true.
C4_MarkedShownCompleted ==
  \A c \in Clients :
    AtLastFetch(c) =>
      \A task \in ShownTasks(GetFetchProfilesResult(c, "ok")) :
        \A n \in seenMarked[c] : task.id = ToString(n) => task.completed = TRUE

\* C4: markHabitComplete(id) then getHabitTasks() shows completed === true; a
\* second markHabitComplete(id) succeeds and leaves the stored state as the
\* first left it; no operation changes completed from true back to false.
C4_MarkThenGet ==
  /\ [](C4_MarkSetsCompleted /\ C4_MarkedShownCompleted)
  /\ [][C4_NeverUncompleted]_vars

\* a later getHabitTasks shows a task that was marked complete
C4_Witness ==
  \E c \in Clients :
    /\ AtLastFetch(c)
    /\ \E task \in ShownTasks(GetFetchProfilesResult(c, "ok")) :
         \E n \in seenMarked[c] : task.id = ToString(n)

\* C5, the result: with no membership row for the caller, the group lookup of
\* addHabitTask and of getHabitTasks ends the operation with NO_GROUP.
C5_NoGroupResult ==
  \A c \in Clients :
    MembershipsOf(userId[c]) = <<>> =>
      /\ At(c, "add", "group") =>
           AddFetchGroupResult(c, "ok") = Failure("NO_GROUP")
      /\ At(c, "get", "group") =>
           GetFetchGroupResult(c, "ok") = Failure("NO_GROUP")

\* C5, the table: the group lookup of an addHabitTask whose caller has no
\* membership row returns to the caller and inserts nothing.
C5_NoGroupNoInsert ==
  \A c \in Clients :
    (At(c, "add", "group") /\ MembershipsOf(userId[c]) = <<>> /\ pc'[c] # pc[c]) =>
      (pc'[c] = "ready" /\ habits' = habits /\ nextId' = nextId)

\* C5: an authenticated user without a membership row gets NO_GROUP from
\* addHabitTask and from getHabitTasks, and addHabitTask inserts no row.
C5_NoGroup == []C5_NoGroupResult /\ [][C5_NoGroupNoInsert]_vars

\* an authenticated caller without a membership row is at the group lookup
C5_Witness ==
  \E c \in Clients :
    /\ At(c, "add", "group")
    /\ userId[c] \in Users
    /\ MembershipsOf(userId[c]) = <<>>

\* the documented error codes of each operation
AddCodes == {"AUTH_ERROR", "NO_GROUP", "TASK_INSERT_ERROR", "UNKNOWN"}
DeleteCodes == {"TASK_DELETE_ERROR", "UNKNOWN"}
MarkCodes == {"TASK_UPDATE_ERROR", "UNKNOWN"}
GetCodes == {"AUTH_ERROR", "NO_GROUP", "MEMBERS_FETCH_ERROR", "TASK_FETCH_ERROR",
             "GROUP_FETCH_ERROR", "UNKNOWN"}

\* a result is a success without an error, or an error with a code of the
\* set and no success payload
Typed(r, codes) ==
  \/ r.kind = "ok" /\ r.code = ""
  \/ r.kind = "err" /\ r.code \in codes /\ r.id = 0 /\ r.members = <<>>

\* a step that is not the last of its operation may also go on
TypedOrGoesOn(r, codes) == r = NoResult \/ Typed(r, codes)

\* a request that throws ends the operation with UNKNOWN
Unknown(r, o) == o = "throw" => r = Failure("UNKNOWN")

\* C6: whatever a backend request does (answer, error, no data, exception),
\* the step of the operation waiting for it either goes on or returns a typed
\* result: a success without an error, or a failure with one of the
\* operation's codes and no payload; an exception becomes UNKNOWN; the last
\* step of an operation always returns.
C6_TypedResults ==
  \A c \in Clients, o \in Outcomes :
    /\ Ready(c) =>
         /\ TypedOrGoesOn(AddCallResult(c, o), AddCodes)
         /\ Unknown(AddCallResult(c, o), o)
         /\ TypedOrGoesOn(GetCallResult(c, o), GetCodes)
         /\ Unknown(GetCallResult(c, o), o)
         /\ \A t \in TaskIdInputs :
              /\ Typed(DeleteResult(c, t, o), DeleteCodes)
              /\ Unknown(DeleteResult(c, t, o), o)
              /\ Typed(MarkResult(c, t, o), MarkCodes)
              /\ Unknown(MarkResult(c, t, o), o)
    /\ At(c, "add", "profile") =>
         /\ TypedOrGoesOn(AddFetchProfileResult(c, o), AddCodes)
         /\ Unknown(AddFetchProfileResult(c, o), o)
    /\ At(c, "add", "group") =>
         /\ TypedOrGoesOn(AddFetchGroupResult(c, o), AddCodes)
         /\ Unknown(AddFetchGroupResult(c, o), o)
    /\ At(c, "add", "insert") =>
         /\ Typed(AddInsertResult(c, o), AddCodes)
         /\ Unknown(AddInsertResult(c, o), o)
    /\ At(c, "get", "group") =>
         /\ TypedOrGoesOn(GetFetchGroupResult(c, o), GetCodes)
         /\ Unknown(GetFetchGroupResult(c, o), o)
    /\ At(c, "get", "members") =>
         /\ TypedOrGoesOn(GetFetchMembersResult(c, o), GetCodes)
         /\ Unknown(GetFetchMembersResult(c, o), o)
    /\ At(c, "get", "tasks") =>
         /\ TypedOrGoesOn(GetFetchTasksResult(c, o), GetCodes)
         /\ Unknown(GetFetchTasksResult(c, o), o)
    /\ At(c, "get", "profiles") =>
         /\ Typed(GetFetchProfilesResult(c, o), GetCodes)
         /\ Unknown(GetFetchProfilesResult(c, o), o)
    /\ ~Ready(c) =>
         <<op[c], pc[c]>> \in
           {<<"add", "profile">>, <<"add", "group">>, <<"add", "insert">>,
            <<"get", "group">>, <<"get", "members">>, <<"get", "tasks">>,
            <<"get", "profiles">>}

\* an operation waits for a request in the middle of its requests
C6_Witness ==
  \E c \in Clients : At(c, "get", "tasks") /\ memberRows[c] # <<>>

\* the membership row of user u in group g exists
IsMember(u, g) ==
  \E i \in 1..Len(group_members) :
    group_members[i] = [user_id |-> u, group_id |-> g]

\* the membership row of user u in group g is the first row of u
IsFirstMembership(u, g) ==
  \E i \in 1..Len(group_members) :
    /\ group_members[i] = [user_id |-> u, group_id |-> g]
    /\ \A j \in 1..(i - 1) : group_members[j].user_id # u

\* C7 as claimed: the row addHabitTask inserts carries the caller's id and a
\* group the caller is a member of at the moment of the insert.
C7_GroupIsMembershipAtInsert ==
  \A c \in Clients :
    At(c, "add", "insert") =>
      /\ InsertRow(c).user_id = session[c]
      /\ IsMember(session[c], InsertRow(c).group_id)

\* C7 as the code has it: the row addHabitTask inserts carries the caller's
\* id and the group of the caller's first membership row as the group lookup
\* read it; the key is new, and every stored row has one user and one group.
C7_GroupIsMembershipAtLookup ==
  /\ \A c \in Clients :
       /\ (At(c, "add", "group") /\ AddFetchGroupResult(c, "ok") = NoResult) =>
            IsFirstMembership(session[c], FirstGroupId(MembershipsOf(userId[c])))
       /\ At(c, "add", "insert") =>
            /\ InsertRow(c).user_id = session[c]
            /\ InsertRow(c).group_id = groupId[c]
            /\ groupId[c] \in Groups
            /\ InsertRow(c).id \notin Ids(habits)
  /\ \A i \in 1..Len(habits) :
       habits[i].user_id \in Users /\ habits[i].group_id \in Groups

\* the lookup's group is the one the next step stores
C7_LookupStored ==
  \A c \in Clients :
    (At(c, "add", "group") /\ pc'[c] = "insert") =>
      IsFirstMembership(session[c], groupId'[c])

\* C7, amended: user_id is the caller's id and group_id the group of the
\* caller's first membership row at the time of the group lookup.
C7_Amended == []C7_GroupIsMembershipAtLookup /\ [][C7_LookupStored]_vars

\* the membership read by the lookup is gone when the insert is due
C7_Witness ==
  \E c \in Clients :
    /\ At(c, "add", "insert")
    /\ ~IsMember(session[c], groupId[c])

\* the positions of the task rows of user u, and the rank of one among them
RowsOf(rows, u) == { j \in 1..Len(rows) : rows[j].user_id = u }
Rank(rows, u, j) == Cardinality({ k \in RowsOf(rows, u) : k <= j })

\* C8: getHabitTasks returns one GroupMember per member row, in the order of
\* the member fetch; a member's tasks are the task rows with its user_id, in
\* the order of the task fetch, with the key as a decimal string, title =
\* name, completed = true only for a stored true; a task row of no member is
\* shown under no member.
C8_MembersAndTasks ==
  \A c \in Clients :
    AtLastFetch(c) =>
      LET r == GetFetchProfilesResult(c, "ok")
          ms == memberRows[c]
          ts == taskRows[c]
      IN
        /\ r.kind = "ok"
        /\ Len(r.members) = Len(ms)
        /\ \A i \in 1..Len(ms) :
             LET u == ms[i].user_id
                 shown == r.members[i].tasks
             IN
               /\ r.members[i].id = u
               /\ Len(shown) = Cardinality(RowsOf(ts, u))
               /\ \A j \in RowsOf(ts, u) :
                    LET task == shown[Rank(ts, u, j)] IN
                      /\ Number(task.id) = ts[j].id
                      /\ Head(task.id) # "0"
                      /\ task.title = ts[j].name
                      /\ task.completed = (ts[j].completed = "true")
        /\ \A j \in 1..Len(ts) :
             (\A i \in 1..Len(ms) : ms[i].user_id # ts[j].user_id) =>
               \A task \in ShownTasks(r) : Number(task.id) # ts[j].id

\* two members, two task rows of one member, a null flag, a row of no member
C8_Witness ==
  \E c \in Clients :
    /\ AtLastFetch(c)
    /\ Len(memberRows[c]) = 2
    /\ Len(taskRows[c]) = 2
    /\ taskRows[c][1].user_id = "u3"
    /\ taskRows[c][2].completed = Null
    /\ taskRows[c][2].user_id = memberRows[c][2].user_id

\* the name the claim gives a joined profile
ClaimedName(profiles) ==
  CASE profiles.kind = "none" -> "Unknown"
    [] profiles.kind = "array" /\ profiles.items = <<>> -> "Unknown"
    [] OTHER ->
         IF profiles.items[1].display_name \in {Undefined, ""} THEN "Unknown"
         ELSE profiles.items[1].display_name

\* C9: a member's name is "You" for the caller's own row whatever the profile;
\* otherwise the display_name of the profile object, or of the first element
\* of a profile array, and "Unknown" for an absent profile, an empty array or
\* a missing or empty display_name.
C9_MemberNames ==
  \A c \in Clients :
    AtLastFetch(c) =>
      LET r == GetFetchProfilesResult(c, "ok")
          ms == memberRows[c]
      IN
        /\ Len(r.members) = Len(ms)
        /\ \A i \in 1..Len(ms) :
             r.members[i].name =
               IF ms[i].user_id = userId[c] THEN "You"
               ELSE ClaimedName(ms[i].profiles)

\* the caller's row with a named profile, and a teammate with a profile array
\* of two elements
C9_Witness ==
  \E c \in Clients :
    /\ AtLastFetch(c)
    /\ Len(memberRows[c]) = 2
    /\ memberRows[c][1].user_id = userId[c]
    /\ memberRows[c][1].profiles.kind = "object"
    /\ memberRows[c][2].user_id # userId[c]
    /\ Len(memberRows[c][2].profiles.items) = 2

\* the order of the awaits of getHabitTasks
GetOrder ==
  {<<"ready", "group">>, <<"group", "members">>, <<"members", "tasks">>,
   <<"tasks", "profiles">>}

\* C10, the codes: a request of getHabitTasks that returns an error or no data
\* ends the operation with the code of its step; members are returned by the
\* last step only, and only when its request answers.
C10_StepCodes ==
  \A c \in Clients :
    /\ \A o \in {"error", "empty"} :
         /\ Ready(c) => GetCallResult(c, o) = Failure("AUTH_ERROR")
         /\ At(c, "get", "group") =>
              GetFetchGroupResult(c, o) = Failure("NO_GROUP")
         /\ At(c, "get", "members") =>
              GetFetchMembersResult(c, o) = Failure("MEMBERS_FETCH_ERROR")
         /\ At(c, "get", "tasks") =>
              GetFetchTasksResult(c, o) = Failure("TASK_FETCH_ERROR")
         /\ At(c, "get", "profiles") =>
              GetFetchProfilesResult(c, o) = Failure("GROUP_FETCH_ERROR")
    /\ \A o \in Outcomes :
         /\ Ready(c) => GetCallResult(c, o).kind # "ok"
         /\ At(c, "get", "group") => GetFetchGroupResult(c, o).kind # "ok"
         /\ At(c, "get", "members") => GetFetchMembersResult(c, o).kind # "ok"
         /\ At(c, "get", "tasks") => GetFetchTasksResult(c, o).kind # "ok"
         /\ At(c, "get", "profiles") =>
              (GetFetchProfilesResult(c, o).kind = "ok" <=> o = "ok")

\* C10, the order: getHabitTasks moves from one await to the next in the order
\* authenticate, group, members, tasks, profiles, or returns; it moves on
\* only when the request answered; none of its steps writes a table.
C10_StepOrder ==
  \A c \in Clients :
    ((op[c] = "get" \/ op'[c] = "get") /\ pc'[c] # pc[c]) =>
      /\ pc'[c] = "ready" \/ <<pc[c], pc'[c]>> \in GetOrder
      /\ (pc[c] = "group" /\ pc'[c] = "members") =>
           GetFetchGroupResult(c, "ok") = NoResult
      /\ UNCHANGED <<session, group_members, habits, nextId>>

\* C10: getHabitTasks issues its five requests in order, stops at the first
\* that fails with that step's code, returns members only when all five
\* succeed, and writes no table.
C10_GetSteps == []C10_StepCodes /\ [][C10_StepOrder]_vars

\* a getHabitTasks waits for its second member fetch
C10_Witness ==
  \E c \in Clients : AtLastFetch(c) /\ memberRows[c] # <<>> /\ taskRows[c] # <<>>

====
